---- MODULE Spec2Model ----
(***************************************************************************)
(* A model of DataRefineAI (src/DataRefineAI.py): the missing-value        *)
(* repair engine (interpolate_numeric, calculate_interpolation,            *)
(* fill_categorical, handle_missing_values) and the clean_data pipeline    *)
(* with the validation report the instance keeps between calls.            *)
(*                                                                         *)
(* A column (pandas Series with the default RangeIndex) is a function      *)
(* from the positions 0..n-1 to cells.  A numeric cell is an exact         *)
(* rational [num, den] in lowest terms; den = 0 is the absent value (NaN). *)
(* A text cell is a string; the string NA is the absent value.             *)
(***************************************************************************)
EXTENDS Integers, Sequences, FiniteSets, TLC

\* pc: where the caller stands; arg: the argument of the call; ret: what the
\* call returned; validation_report: self.validation_report; records_before:
\* whether self.validation_report held interpolation records when the call began
VARIABLES pc, arg, ret, validation_report, records_before

vars == <<pc, arg, ret, validation_report, records_before>>

\* ------------------------------------------------------------------ bounds
MaxLen == 5
MaxRows == 4
MaxCsvRows == 3

\* ------------------------------------------------------------ the instance
\* __init__
initial_validation_report ==
    [data_overview |-> [total_rows |-> 0, total_columns |-> 0],
     missing_data |-> [numeric_fields_missing |-> 0,
                       categorical_fields_missing |-> 0,
                       columns_with_missing |-> <<>>,
                       interpolation_details |-> <<>>],
     duplicate_records |-> [total_duplicates |-> 0, conflicting_records |-> 0],
     normalization |-> [text_fields |-> FALSE, numeric_fields |-> FALSE],
     final_status |-> [rows_after_cleaning |-> 0, columns_after_cleaning |-> 0]]

\* ------------------------------------------------------- exact arithmetic
Abs(x) == IF x < 0 THEN -x ELSE x

RECURSIVE GCD(_, _)
GCD(a, b) == IF b = 0 THEN a ELSE GCD(b, a % b)

\* the rational n/d (d > 0) in lowest terms
Rat(n, d) ==
    LET g == GCD(Abs(n), d)
    IN  [num |-> n \div g, den |-> d \div g]

Num(v) == [num |-> v, den |-> 1]
NaN == [num |-> 0, den |-> 0]

RatAdd(p, q) == Rat(p.num * q.den + q.num * p.den, p.den * q.den)
RatSub(p, q) == Rat(p.num * q.den - q.num * p.den, p.den * q.den)
RatMul(p, q) == Rat(p.num * q.num, p.den * q.den)

\* round(x, 2): the nearest multiple of 1/100, a tie going to the even one
round2(x) ==
    LET n  == x.num * 100
        fl == n \div x.den
        r  == n % x.den
        h  == IF 2 * r < x.den THEN fl
              ELSE IF 2 * r > x.den THEN fl + 1
              ELSE IF fl % 2 = 0 THEN fl ELSE fl + 1
    IN  Rat(h, 100)

\* ------------------------------------------------------------- the Series
Max(S) == CHOOSE x \in S : \A y \in S : y <= x
Min(S) == CHOOSE x \in S : \A y \in S : x <= y

isna(c) == c.den = 0
notna(c) == c.den # 0

\* the positions of a set, in ascending order
RECURSIVE Ascending(_)
Ascending(S) ==
    IF S = {} THEN <<>> ELSE <<Min(S)>> \o Ascending(S \ {Min(S)})

\* calculate_interpolation with before_mask cut one position short
calculate_interpolation_short_mask(series, index) ==
    LET before_mask == {j \in DOMAIN series : j < index - 1 /\ notna(series[j])}
        after_mask  == {j \in DOMAIN series : j >= index /\ notna(series[j])}
    IN  IF before_mask # {} /\ after_mask # {}
        THEN LET left_idx  == Max(before_mask)
                 right_idx == Min(after_mask)
                 left_val  == series[left_idx]
                 right_val == series[right_idx]
                 position_ratio == Rat(index - left_idx, right_idx - left_idx)
                 interpolated_value ==
                     RatAdd(left_val,
                            RatMul(RatSub(right_val, left_val), position_ratio))
             IN  << [missing_index |-> index,
                     left_value |-> left_val,
                     right_value |-> right_val,
                     left_index |-> left_idx,
                     right_index |-> right_idx,
                     interpolated_value |-> round2(interpolated_value)] >>
        ELSE <<>>

\* calculate_interpolation taking the first, not the last, value before the gap
calculate_interpolation_first_left(series, index) ==
    LET before_mask == {j \in DOMAIN series : j < index /\ notna(series[j])}
        after_mask  == {j \in DOMAIN series : j >= index /\ notna(series[j])}
    IN  IF before_mask # {} /\ after_mask # {}
        THEN LET left_idx  == Min(before_mask)
                 right_idx == Min(after_mask)
                 left_val  == series[left_idx]
                 right_val == series[right_idx]
                 position_ratio == Rat(index - left_idx, right_idx - left_idx)
                 interpolated_value ==
                     RatAdd(left_val,
                            RatMul(RatSub(right_val, left_val), position_ratio))
             IN  << [missing_index |-> index,
                     left_value |-> left_val,
                     right_value |-> right_val,
                     left_index |-> left_idx,
                     right_index |-> right_idx,
                     interpolated_value |-> round2(interpolated_value)] >>
        ELSE <<>>

\* calculate_interpolation: <<>> is None, <<d>> the details of one gap (the
\* "calculation" text, a rendering of the other fields, is left out)
calculate_interpolation(series, index) ==
    LET before_mask == {j \in DOMAIN series : j < index /\ notna(series[j])}
        after_mask  == {j \in DOMAIN series : j >= index /\ notna(series[j])}
    IN  IF before_mask # {} /\ after_mask # {}
        THEN LET left_idx  == Max(before_mask)
                 right_idx == Min(after_mask)
                 left_val  == series[left_idx]
                 right_val == series[right_idx]
                 position_ratio == Rat(index - left_idx, right_idx - left_idx)
                 interpolated_value ==
                     RatAdd(left_val,
                            RatMul(RatSub(right_val, left_val), position_ratio))
             IN  << [missing_index |-> index,
                     left_value |-> left_val,
                     right_value |-> right_val,
                     left_index |-> left_idx,
                     right_index |-> right_idx,
                     interpolated_value |-> round2(interpolated_value)] >>
        ELSE <<>>

\* Series.interpolate with method='pad': every gap takes the value before it
interpolate_pad(series) ==
    LET valid == {j \in DOMAIN series : notna(series[j])}
    IN  [i \in DOMAIN series |->
            IF notna(series[i]) THEN series[i]
            ELSE LET lo == {j \in valid : j < i}
                 IN  IF lo = {} THEN NaN ELSE series[Max(lo)]]

\* Series.interpolate with limit_direction='both': a gap before the first
\* value takes the first value
interpolate_both(series) ==
    LET valid == {j \in DOMAIN series : notna(series[j])}
    IN  [i \in DOMAIN series |->
            IF notna(series[i]) THEN series[i]
            ELSE LET lo == {j \in valid : j < i}
                     hi == {j \in valid : j > i}
                 IN  IF lo = {} /\ hi = {} THEN NaN
                     ELSE IF lo = {} THEN series[Min(hi)]
                     ELSE IF hi = {} THEN series[Max(lo)]
                     ELSE LET xL == Max(lo)
                              xR == Min(hi)
                              slope == RatMul(RatSub(series[xR], series[xL]),
                                              Rat(1, xR - xL))
                          IN  RatAdd(RatMul(slope, Num(i - xL)), series[xL])]

\* Series.interpolate(method='linear') with the defaults
\* (limit_direction='forward', limit_area=None): a gap between two values
\* gets slope * (x - xL) + yL, a gap after the last value gets the last
\* value, a gap before the first value stays absent.
interpolate_linear(series) ==
    LET valid == {j \in DOMAIN series : notna(series[j])}
    IN  [i \in DOMAIN series |->
            IF notna(series[i]) THEN series[i]
            ELSE LET lo == {j \in valid : j < i}
                     hi == {j \in valid : j > i}
                 IN  IF lo = {} THEN NaN
                     ELSE IF hi = {} THEN series[Max(lo)]
                     ELSE LET xL == Max(lo)
                              xR == Min(hi)
                              slope == RatMul(RatSub(series[xR], series[xL]),
                                              Rat(1, xR - xL))
                          IN  RatAdd(RatMul(slope, Num(i - xL)), series[xL])]

RECURSIVE details_of(_, _)
details_of(series, missing_indices) ==
    IF missing_indices = <<>> THEN <<>>
    ELSE calculate_interpolation(series, Head(missing_indices))
         \o details_of(series, Tail(missing_indices))

interpolate_numeric(series) ==
    LET missing_indices == Ascending({i \in DOMAIN series : isna(series[i])})
    IN  [series |-> interpolate_linear(series),
         details |-> details_of(series, missing_indices)]

\* ------------------------------------------------- numeric column inputs
AgeValues == {Num(10), Num(21), Num(40)}

NumericColumns ==
    UNION {[0 .. n - 1 -> AgeValues \cup {NaN}] : n \in 1 .. MaxLen}

InitInterpolate ==
    /\ pc = "call"
    /\ arg \in NumericColumns
    /\ ret = <<>>
    /\ validation_report = initial_validation_report
    /\ records_before = FALSE

InterpolateNumeric ==
    /\ pc = "call"
    /\ ret' = interpolate_numeric(arg)
    /\ pc' = "done"
    /\ UNCHANGED <<arg, validation_report, records_before>>

NextInterpolate == InterpolateNumeric

SpecInterpolate == InitInterpolate /\ [][NextInterpolate]_vars

\* ------------------------------------------------------------ text columns
NA == "<NA>"

NameValues == {"Al", "Bo", "al"}

\* the order of str values (by code point), as Series.mode() sorts them
SortOrder == <<"Al", "Bo", "Unknown", "al", "bo", "unknown">>

Rank(s) == CHOOSE k \in 1 .. Len(SortOrder) : SortOrder[k] = s

Count(series, v) == Cardinality({i \in DOMAIN series : series[i] = v})

\* Series.mode(): the most frequent non-absent values, in sorted order
mode(series) ==
    LET present == {series[i] : i \in DOMAIN series} \ {NA}
        modes == {v \in present :
                     \A w \in present : Count(series, w) <= Count(series, v)}
        ranked == Ascending({Rank(v) : v \in modes})
    IN  [k \in 1 .. Len(ranked) |-> SortOrder[ranked[k]]]

fillna(series, value) ==
    [i \in DOMAIN series |-> IF series[i] = NA THEN value ELSE series[i]]

\* fill_categorical taking the last of the modes
fill_categorical_last_mode(series) ==
    IF Len(mode(series)) > 0
    THEN fillna(series, mode(series)[Len(mode(series))])
    ELSE fillna(series, "Unknown")

fill_categorical(series) ==
    IF Len(mode(series)) > 0
    THEN fillna(series, mode(series)[1])
    ELSE fillna(series, "Unknown")

TextColumns ==
    UNION {[0 .. n - 1 -> NameValues \cup {NA}] : n \in 1 .. MaxLen}

InitCategorical ==
    /\ pc = "call"
    /\ arg \in TextColumns
    /\ ret = <<>>
    /\ validation_report = initial_validation_report
    /\ records_before = FALSE

FillCategorical ==
    /\ pc = "call"
    /\ ret' = fill_categorical(arg)
    /\ pc' = "done"
    /\ UNCHANGED <<arg, validation_report, records_before>>

NextCategorical == FillCategorical

SpecCategorical == InitCategorical /\ [][NextCategorical]_vars

\* --------------------------------------------------------------- the table
\* A DataFrame is [columns: the names in order, index: the row labels,
\* data: name -> (label -> cell)].  The "age" column is float64 (rational
\* cells, NaN absent); every other column is text (NA absent).
Range(seq) == {seq[k] : k \in 1 .. Len(seq)}

\* load_data: the parsed rows become columns over the labels 0..n-1
load_data(data) ==
    [columns |-> data.columns,
     index |-> 0 .. Len(data.rows) - 1,
     data |-> [c \in Range(data.columns) |->
                  [i \in 0 .. Len(data.rows) - 1 |-> data.rows[i + 1][c]]]]

\* df.to_csv(index=False): the header and the rows in label order, no labels
to_csv(df) ==
    LET labels == Ascending(df.index)
    IN  [columns |-> df.columns,
         rows |-> [k \in 1 .. Len(labels) |->
                      [c \in Range(df.columns) |-> df.data[c][labels[k]]]]]

\* detect_data_types taking every column but "age" for categorical
detect_data_types_no_id(df) ==
    [column \in Range(df.columns) |->
        IF column = "age" THEN "numeric" ELSE "categorical"]

detect_data_types(df) ==
    [column \in Range(df.columns) |->
        IF column = "age" THEN "numeric"
        ELSE IF column = "name" THEN "categorical"
        ELSE "id"]

\* df[column].isna(): the labels of the absent cells
isna_labels(df, column) ==
    {i \in df.index : IF column = "age" THEN isna(df.data[column][i])
                      ELSE df.data[column][i] = NA}

with_details(column, details) ==
    [k \in 1 .. Len(details) |->
        [column |-> column,
         missing_index |-> details[k].missing_index,
         left_value |-> details[k].left_value,
         right_value |-> details[k].right_value,
         left_index |-> details[k].left_index,
         right_index |-> details[k].right_index,
         interpolated_value |-> details[k].interpolated_value]]

\* repair_column counting only the gaps that received a record
repair_column_counts_records(df, missing_report, k) ==
    LET column == df.columns[k]
        data_types == detect_data_types(df)
        missing_count == Cardinality(isna_labels(df, column))
        listed == [missing_report EXCEPT
                      !.columns_with_missing = Append(@, column)]
    IN  IF missing_count > 0
        THEN IF data_types[column] = "numeric"
             THEN LET r == interpolate_numeric(df.data[column])
                  IN  [df |-> [df EXCEPT !.data[column] = r.series],
                       missing_report |->
                           [listed EXCEPT
                               !.numeric_fields_missing = @ + Len(r.details),
                               !.interpolation_details =
                                   @ \o with_details(column, r.details)]]
             ELSE IF data_types[column] = "categorical"
             THEN [df |-> [df EXCEPT
                              !.data[column] = fill_categorical(df.data[column])],
                   missing_report |->
                       [listed EXCEPT
                           !.categorical_fields_missing = @ + missing_count]]
             ELSE [df |-> df, missing_report |-> listed]
        ELSE [df |-> df, missing_report |-> missing_report]

\* repair_column listing a column before looking at its missing_count
repair_column_lists_all(df, missing_report, k) ==
    LET column == df.columns[k]
        data_types == detect_data_types(df)
        missing_count == Cardinality(isna_labels(df, column))
        listed == [missing_report EXCEPT
                      !.columns_with_missing = Append(@, column)]
    IN  IF missing_count > 0
        THEN IF data_types[column] = "numeric"
             THEN LET r == interpolate_numeric(df.data[column])
                  IN  [df |-> [df EXCEPT !.data[column] = r.series],
                       missing_report |->
                           [listed EXCEPT
                               !.numeric_fields_missing = @ + missing_count,
                               !.interpolation_details =
                                   @ \o with_details(column, r.details)]]
             ELSE IF data_types[column] = "categorical"
             THEN [df |-> [df EXCEPT
                              !.data[column] = fill_categorical(df.data[column])],
                   missing_report |->
                       [listed EXCEPT
                           !.categorical_fields_missing = @ + missing_count]]
             ELSE [df |-> df, missing_report |-> listed]
        ELSE [df |-> df, missing_report |-> listed]

\* one pass of the loop of handle_missing_values, on df.columns[k]
repair_column(df, missing_report, k) ==
    LET column == df.columns[k]
        data_types == detect_data_types(df)
        missing_count == Cardinality(isna_labels(df, column))
        listed == [missing_report EXCEPT
                      !.columns_with_missing = Append(@, column)]
    IN  IF missing_count > 0
        THEN IF data_types[column] = "numeric"
             THEN LET r == interpolate_numeric(df.data[column])
                  IN  [df |-> [df EXCEPT !.data[column] = r.series],
                       missing_report |->
                           [listed EXCEPT
                               !.numeric_fields_missing = @ + missing_count,
                               !.interpolation_details =
                                   @ \o with_details(column, r.details)]]
             ELSE IF data_types[column] = "categorical"
             THEN [df |-> [df EXCEPT
                              !.data[column] = fill_categorical(df.data[column])],
                   missing_report |->
                       [listed EXCEPT
                           !.categorical_fields_missing = @ + missing_count]]
             ELSE [df |-> df, missing_report |-> listed]
        ELSE [df |-> df, missing_report |-> missing_report]

RECURSIVE repair_from(_, _, _)
repair_from(df, missing_report, k) ==
    IF k > Len(df.columns) THEN [df |-> df, missing_report |-> missing_report]
    ELSE LET r == repair_column(df, missing_report, k)
         IN  repair_from(r.df, r.missing_report, k + 1)

handle_missing_values(df) ==
    repair_from(df,
                [numeric_fields_missing |-> 0,
                 categorical_fields_missing |-> 0,
                 columns_with_missing |-> <<>>,
                 interpolation_details |-> <<>>],
                1)

row_of(df, i) == [c \in Range(df.columns) |-> df.data[c][i]]

\* df.drop_duplicates(): the first of equal rows stays, under its own label
remove_duplicates(df) ==
    LET keep == {i \in df.index :
                    ~ \E j \in df.index : j < i /\ row_of(df, j) = row_of(df, i)}
        df_no_duplicates ==
            [columns |-> df.columns,
             index |-> keep,
             data |-> [c \in Range(df.columns) |->
                          [i \in keep |-> df.data[c][i]]]]
    IN  [df |-> df_no_duplicates,
         duplicate_report |->
             [total_duplicates |-> Cardinality(df.index) - Cardinality(keep),
              conflicting_records |-> 0]]

\* str.lower() on the values the model uses; the absent value stays absent
lower(s) ==
    CASE s = "Al" -> "al"
      [] s = "Bo" -> "bo"
      [] s = "Unknown" -> "unknown"
      [] OTHER -> s

normalize_text(series) == [i \in DOMAIN series |-> lower(series[i])]

\* pd.to_numeric(errors='coerce') on a float64 column returns its values
to_numeric(series) == series

normalize_data_types(df) ==
    LET data_types == detect_data_types(df)
    IN  [df |-> [df EXCEPT !.data =
                    [c \in Range(df.columns) |->
                        IF data_types[c] = "categorical"
                        THEN normalize_text(df.data[c])
                        ELSE IF data_types[c] = "numeric"
                        THEN to_numeric(df.data[c])
                        ELSE df.data[c]]],
         normalization_report |->
             [text_fields |->
                 \E c \in Range(df.columns) : data_types[c] = "categorical",
              numeric_fields |->
                 \E c \in Range(df.columns) : data_types[c] = "numeric"]]

\* dict.update
update(d, other) ==
    [k \in DOMAIN d \cup DOMAIN other |->
        IF k \in DOMAIN other THEN other[k] ELSE d[k]]

\* clean_data extending the interpolation_details the report already holds
clean_data_extending(report, data) ==
    LET df == load_data(data)
        m == handle_missing_values(df)
        d == remove_duplicates(m.df)
        n == normalize_data_types(d.df)
    IN  [csv |-> to_csv(n.df),
         validation_report |->
            [data_overview |->
                [report.data_overview EXCEPT
                    !.total_rows = Cardinality(df.index),
                    !.total_columns = Len(df.columns)],
             missing_data |->
                [update(report.missing_data, m.missing_report) EXCEPT
                    !.interpolation_details =
                        report.missing_data.interpolation_details
                        \o m.missing_report.interpolation_details],
             duplicate_records |->
                update(report.duplicate_records, d.duplicate_report),
             normalization |->
                update(report.normalization, n.normalization_report),
             final_status |->
                [report.final_status EXCEPT
                    !.rows_after_cleaning = Cardinality(n.df.index),
                    !.columns_after_cleaning = Len(n.df.columns)]]]

\* clean_data on an instance whose report is `report`
clean_data(report, data) ==
    LET df == load_data(data)
        m == handle_missing_values(df)
        d == remove_duplicates(m.df)
        n == normalize_data_types(d.df)
    IN  [csv |-> to_csv(n.df),
         validation_report |->
            [data_overview |->
                [report.data_overview EXCEPT
                    !.total_rows = Cardinality(df.index),
                    !.total_columns = Len(df.columns)],
             missing_data |-> update(report.missing_data, m.missing_report),
             duplicate_records |->
                update(report.duplicate_records, d.duplicate_report),
             normalization |->
                update(report.normalization, n.normalization_report),
             final_status |->
                [report.final_status EXCEPT
                    !.rows_after_cleaning = Cardinality(n.df.index),
                    !.columns_after_cleaning = Len(n.df.columns)]]]

\* ------------------------------------------------------------ table inputs
RepairAges == {Num(10), Num(40), NaN}
RepairNames == {"Al", NA}
RepairRegions == {"N", NA}

Headers ==
    {<<"region">>, <<"name", "age">>, <<"region", "age", "name">>}

\* the columns a header with n rows can hold under the given name
ColumnsOf(header, n, column, values) ==
    IF column \in Range(header) THEN [0 .. n - 1 -> values] ELSE {<<>>}

\* the DataFrame with the given header and columns, labelled 0..n-1
Frame(header, n, a, nm, rg) ==
    [columns |-> header,
     index |-> 0 .. n - 1,
     data |-> [c \in Range(header) |->
                  IF c = "age" THEN a ELSE IF c = "name" THEN nm ELSE rg]]

InitMissing ==
    /\ pc = "call"
    /\ \E header \in Headers, n \in 1 .. MaxRows :
          \E a \in ColumnsOf(header, n, "age", RepairAges),
             nm \in ColumnsOf(header, n, "name", RepairNames),
             rg \in ColumnsOf(header, n, "region", RepairRegions) :
                arg = Frame(header, n, a, nm, rg)
    /\ ret = <<>>
    /\ validation_report = initial_validation_report
    /\ records_before = FALSE

HandleMissingValues ==
    /\ pc = "call"
    /\ ret' = handle_missing_values(arg)
    /\ pc' = "done"
    /\ UNCHANGED <<arg, validation_report, records_before>>

NextMissing == HandleMissingValues

SpecMissing == InitMissing /\ [][NextMissing]_vars

\* the rows a CSV text handed to clean_data is made of
CsvHeader == <<"region", "name", "age">>

CsvRows ==
    {[region |-> "N", name |-> "Al", age |-> Num(10)],
     [region |-> "N", name |-> "al", age |-> Num(10)],
     [region |-> "N", name |-> "Al", age |-> Num(40)],
     [region |-> "N", name |-> "Bo", age |-> NaN],
     [region |-> NA, name |-> NA, age |-> NaN]}

CsvInputs ==
    {[columns |-> CsvHeader, rows |-> r] :
        r \in UNION {[1 .. n -> CsvRows] : n \in 1 .. MaxCsvRows}}

Init ==
    /\ pc = "idle"
    /\ arg = <<>>
    /\ ret = <<>>
    /\ validation_report = initial_validation_report
    /\ records_before = FALSE

CleanData ==
    \E data \in CsvInputs :
        /\ arg' = data
        /\ ret' = clean_data(validation_report, data)
        /\ validation_report' = ret'.validation_report
        /\ records_before' =
              (validation_report.missing_data.interpolation_details # <<>>)
        /\ pc' = "returned"

Next == CleanData

Spec == Init /\ [][Next]_vars

\* ------------------------------------------- claims on interpolate_numeric
Gaps(series) == {i \in DOMAIN series : isna(series[i])}
Before(series, i) == {j \in DOMAIN series : j < i /\ notna(series[j])}
After(series, i) == {j \in DOMAIN series : j > i /\ notna(series[j])}
Enclosed(series) ==
    {i \in Gaps(series) : Before(series, i) # {} /\ After(series, i) # {}}
Recorded(details) == {details[k].missing_index : k \in 1 .. Len(details)}

\* C1: the records of interpolate_numeric list, in ascending order and each
\* once, exactly the gaps that have a non-absent value on both sides; leading
\* gaps, trailing gaps and the gaps of an all-absent column get no record.
C1_RecordsAreEnclosedGaps ==
    pc = "done" =>
        /\ \A k \in 1 .. Len(ret.details) - 1 :
              ret.details[k].missing_index < ret.details[k + 1].missing_index
        /\ Recorded(ret.details) = Enclosed(arg)

C1_Witness ==
    /\ pc = "done"
    /\ Len(ret.details) >= 2
    /\ Gaps(arg) \ Enclosed(arg) # {}

\* C2: every record for gap i names the greatest non-absent position L below
\* i and the least non-absent position R above i of the original column, the
\* values there, and v_L + (v_R - v_L) * (i - L) / (R - L) to the nearest
\* 1/100; [10, absent, absent, 40] gives 20.0 at position 1, 30.0 at position 2.
\* (The values of the column are whole numbers, so `exact` has denominator R - L.)
C2_RecordFields ==
    pc = "done" =>
        /\ \A k \in 1 .. Len(ret.details) :
              LET d == ret.details[k]
                  i == d.missing_index
                  L == Max(Before(arg, i))
                  R == Min(After(arg, i))
                  exact == [num |-> arg[L].num * (R - L)
                                    + (arg[R].num - arg[L].num) * (i - L),
                            den |-> R - L]
                  err == d.interpolated_value.num * exact.den * 100
                         - exact.num * d.interpolated_value.den * 100
              IN  /\ d.left_index = L
                  /\ d.right_index = R
                  /\ d.left_value = arg[L]
                  /\ d.right_value = arg[R]
                  /\ 100 % d.interpolated_value.den = 0
                  /\ 2 * Abs(err) <= d.interpolated_value.den * exact.den
        /\ arg = (0 :> Num(10) @@ 1 :> NaN @@ 2 :> NaN @@ 3 :> Num(40)) =>
              /\ Len(ret.details) = 2
              /\ ret.details[1].missing_index = 1
              /\ ret.details[1].interpolated_value = Num(20)
              /\ ret.details[2].missing_index = 2
              /\ ret.details[2].interpolated_value = Num(30)

C2_Witness ==
    /\ pc = "done"
    /\ arg = (0 :> Num(10) @@ 1 :> NaN @@ 2 :> NaN @@ 3 :> Num(40))
    /\ Len(ret.details) = 2
    /\ ret.details[1].left_index = 0
    /\ ret.details[2].left_index = 0
    /\ ret.details[1].right_index = 3

\* C3: at every gap that has a record, the repaired column holds a non-absent
\* value that rounds, to 2 decimal digits, to the record's interpolated_value.
C3_FillAgreesWithRecord ==
    pc = "done" =>
        \A k \in 1 .. Len(ret.details) :
            LET d == ret.details[k]
                v == ret.series[d.missing_index]
            IN  /\ notna(v)
                /\ round2(v) = d.interpolated_value

C3_Witness ==
    /\ pc = "done"
    /\ \E k \in 1 .. Len(ret.details) :
          /\ ret.series[ret.details[k].missing_index]
                # ret.details[k].interpolated_value
          /\ ret.details[k].right_index - ret.details[k].left_index = 3

\* C4 as stated: every gap with a non-absent value on one side only is filled
\* with the nearest value; a gap stays absent only in an all-absent column.
C4_BoundaryGapsFilled ==
    pc = "done" =>
        \A i \in Gaps(arg) :
            /\ (Before(arg, i) = {} /\ After(arg, i) # {}) =>
                  ret.series[i] = arg[Min(After(arg, i))]
            /\ (Before(arg, i) # {} /\ After(arg, i) = {}) =>
                  ret.series[i] = arg[Max(Before(arg, i))]
            /\ isna(ret.series[i]) => \A j \in DOMAIN arg : isna(arg[j])

\* C4 amended: a trailing gap is filled with the last non-absent value, a
\* leading gap (no non-absent value before it) stays absent, and only such
\* gaps stay absent.
C4_TrailingFilledLeadingAbsent ==
    pc = "done" =>
        \A i \in Gaps(arg) :
            /\ (Before(arg, i) # {} /\ After(arg, i) = {}) =>
                  ret.series[i] = arg[Max(Before(arg, i))]
            /\ isna(ret.series[i]) <=> Before(arg, i) = {}

C4_Witness ==
    /\ pc = "done"
    /\ \E i, j \in Gaps(arg) :
          /\ Before(arg, i) = {} /\ After(arg, i) # {} /\ isna(ret.series[i])
          /\ Before(arg, j) # {} /\ After(arg, j) = {} /\ notna(ret.series[j])

\* --------------------------------------------- claims on fill_categorical
Present(series) == {series[i] : i \in DOMAIN series} \ {NA}
MostFrequent(series) ==
    {v \in Present(series) :
        \A w \in Present(series) : Count(series, w) <= Count(series, v)}
FirstAt(series, v) == Min({i \in DOMAIN series : series[i] = v})
FirstEncountered(series) ==
    CHOOSE v \in MostFrequent(series) :
        \A w \in MostFrequent(series) : FirstAt(series, v) <= FirstAt(series, w)
Smallest(series) ==
    CHOOSE v \in MostFrequent(series) :
        \A w \in MostFrequent(series) : Rank(v) <= Rank(w)

\* C8 as stated: every absent entry becomes the most frequent non-absent
\* value, a tie going to the value met first in row order; an all-absent
\* column becomes all "Unknown"; non-absent entries are kept.
C8_TieToFirstEncountered ==
    pc = "done" =>
        \A i \in DOMAIN arg :
            ret[i] = IF arg[i] # NA THEN arg[i]
                     ELSE IF Present(arg) = {} THEN "Unknown"
                     ELSE FirstEncountered(arg)

\* C8 amended: every absent entry becomes the most frequent non-absent
\* value, a tie going to the smallest value in sorted (code point) order; an
\* all-absent column becomes all "Unknown"; non-absent entries are kept.
C8_TieToSmallest ==
    pc = "done" =>
        /\ \A i \in DOMAIN arg :
              ret[i] = IF arg[i] # NA THEN arg[i]
                       ELSE IF Present(arg) = {} THEN "Unknown"
                       ELSE Smallest(arg)
        /\ arg = (0 :> NA @@ 1 :> NA @@ 2 :> NA) =>
              ret = (0 :> "Unknown" @@ 1 :> "Unknown" @@ 2 :> "Unknown")

C8_Witness ==
    /\ pc = "done"
    /\ arg = (0 :> "al" @@ 1 :> NA @@ 2 :> "Bo" @@ 3 :> "al" @@ 4 :> "Bo")
    /\ ret[1] = "Bo"

\* ---------------------------------------- claims on handle_missing_values
GapsIn(df, dtype) ==
    {<<c, i>> \in Range(df.columns) \X df.index :
        detect_data_types(df)[c] = dtype /\ i \in isna_labels(df, c)}
HasGap(df, c) == isna_labels(df, c) # {}

\* C5: numeric_fields_missing is the number of gaps the Numeric columns had on
\* entry, filled or not, categorical_fields_missing the number the Categorical
\* columns had, Identifier gaps go to neither counter, and
\* numeric_fields_missing >= the number of interpolation_details.
C5_CountsAreGapsOnEntry ==
    pc = "done" =>
        /\ ret.missing_report.numeric_fields_missing
              = Cardinality(GapsIn(arg, "numeric"))
        /\ ret.missing_report.categorical_fields_missing
              = Cardinality(GapsIn(arg, "categorical"))
        /\ ret.missing_report.numeric_fields_missing
              >= Len(ret.missing_report.interpolation_details)

C5_Witness ==
    /\ pc = "done"
    /\ ret.missing_report.numeric_fields_missing = 2
    /\ Len(ret.missing_report.interpolation_details) = 1
    /\ ret.missing_report.categorical_fields_missing = 1
    /\ GapsIn(arg, "id") # {}

\* C6: an Identifier column (any name but "age" and "name") with a gap is
\* listed in columns_with_missing, keeps every value (its gaps stay absent)
\* and gets no InterpolationRecord.
C6_IdentifierUntouched ==
    pc = "done" =>
        \A c \in Range(arg.columns) :
            (c \notin {"age", "name"} /\ HasGap(arg, c)) =>
                /\ c \in Range(ret.missing_report.columns_with_missing)
                /\ ret.df.data[c] = arg.data[c]
                /\ \A k \in 1 .. Len(ret.missing_report.interpolation_details) :
                      ret.missing_report.interpolation_details[k].column # c

C6_Witness ==
    /\ pc = "done"
    /\ "region" \in Range(arg.columns)
    /\ HasGap(arg, "region")
    /\ HasGap(ret.df, "region")
    /\ "region" \in Range(ret.missing_report.columns_with_missing)
    /\ Len(ret.missing_report.interpolation_details) = 1

\* C7: a column without gaps is unchanged and not listed; columns_with_missing
\* is the columns that had a gap on entry, each once, in table column order; a
\* table without gaps comes back the same, with both counters 0 and
\* columns_with_missing and interpolation_details empty.
C7_GaplessColumnsSkipped ==
    pc = "done" =>
        /\ ret.missing_report.columns_with_missing
              = SelectSeq(arg.columns, LAMBDA c : HasGap(arg, c))
        /\ \A c \in Range(arg.columns) :
              ~ HasGap(arg, c) => ret.df.data[c] = arg.data[c]
        /\ (\A c \in Range(arg.columns) : ~ HasGap(arg, c)) =>
              /\ ret.df = arg
              /\ ret.missing_report.numeric_fields_missing = 0
              /\ ret.missing_report.categorical_fields_missing = 0
              /\ ret.missing_report.columns_with_missing = <<>>
              /\ ret.missing_report.interpolation_details = <<>>

C7_Witness ==
    /\ pc = "done"
    /\ arg.columns = <<"region", "age", "name">>
    /\ ~ HasGap(arg, "age")
    /\ ret.missing_report.columns_with_missing = <<"region", "name">>
    /\ ret.df.data["age"] = arg.data["age"]
    /\ ret.df.data["name"] # arg.data["name"]

\* ------------------------------------------------------ claims on clean_data
\* C9: at the return of every clean_data call on one instance, the validation
\* report is the report a fresh instance gives for that call's input alone.
C9_CallsIndependent ==
    pc = "returned" =>
        /\ validation_report
              = clean_data(initial_validation_report, arg).validation_report
        /\ ret.validation_report = validation_report

C9_Witness ==
    /\ pc = "returned"
    /\ records_before
    /\ validation_report.missing_data.interpolation_details = <<>>
    /\ validation_report.missing_data.columns_with_missing = <<>>
    /\ validation_report.missing_data.numeric_fields_missing = 0

\* C10: the cleaned dataset clean_data returns holds no two identical rows,
\* and rows_after_cleaning = total_rows - total_duplicates.
C10_NoIdenticalRows ==
    pc = "returned" =>
        /\ \A j, k \in 1 .. Len(ret.csv.rows) :
              j # k => ret.csv.rows[j] # ret.csv.rows[k]
        /\ validation_report.final_status.rows_after_cleaning
              = validation_report.data_overview.total_rows
                - validation_report.duplicate_records.total_duplicates

====
